---- MODULE Spec2Model ----
(***************************************************************************)
(* A model of stratum's cache hierarchy simulator                          *)
(* (include/stratum/cache_sim.hpp): a chain of set-associative,            *)
(* write-back, write-allocate Cache levels that ends in MainMemory.        *)
(*                                                                         *)
(* One step of the model is one top-level Load or Store on the first       *)
(* level, with the whole chain of nested calls it makes (the miss path     *)
(* into the next level, Fill, the write-back Store of a dirty victim).     *)
(* The replacement policy (stratum/policies.hpp) is not part of the        *)
(* sources at hand; LRUPolicy is modelled from its description.            *)
(***************************************************************************)
EXTENDS Integers, Sequences, FiniteSets

\* ------------------------------------------------------------------ bounds

\* Addresses issued by the driver are 0..MaxAddr.
MaxAddr == 2

\* Number of top-level accesses of one run.
MaxAccesses == 4

\* The width of uint64_t and size_t, scaled down from 64 bits: unsigned
\* arithmetic wraps at 2^WordBits.
WordBits == 4

\* Sets of the configurations the address round trip is tried on: 1..MaxSets
\* (sets_ holds Sets vectors, so Sets stays far below a word's range, while
\* BlockSize, which sizes nothing, can be any word).
MaxSets == 3

\* --------------------------------------------------------- configurations

\* MainMemory's default name (template parameter) and latency (constructor).
MemName == "MainMemory"

DefaultMemLatency == 100

\* Cache<Name, NextLayer, Sets, Ways, BlockSize, ReplacePolicy, HitLatency>
Level(name, sets, ways, bs, lat) ==
    [Name |-> name, Sets |-> sets, Ways |-> ways, BlockSize |-> bs,
     HitLatency |-> lat]

\* The hierarchies the model instantiates the templates with: a sequence of
\* cache levels, top first; MainMemory follows the last one.
Hierarchies ==
    { <<Level("L1", 1, 1, 2, 1)>>,
      <<Level("L1", 1, 2, 1, 1)>>,
      <<Level("L1", 2, 1, 1, 1), Level("L2", 1, 2, 1, 10)>>,
      <<Level("L1", 1, 1, 1, 1), Level("L2", 1, 1, 1, 10)>> }

\* Instantiations with a zero template argument: they compile, and the
\* constructor runs to completion on them.
DegenerateHierarchies ==
    { <<Level("L1", 0, 1, 1, 1)>>,
      <<Level("L1", 1, 0, 1, 1)>>,
      <<Level("L1", 1, 1, 0, 1)>> }

VARIABLES
    cfg,         \* the hierarchy's template arguments, fixed at construction
    memLatency,  \* MainMemory::latency_
    sets_,       \* sets_[l][set][way]: Cache::sets_ of level l
    policy_,     \* policy_[l]: Cache::policy_ of level l
    hits_,       \* hits_[l]
    misses_,     \* misses_[l]
    evictions_,  \* evictions_[l]
    status,      \* "running"; "aborted" or "undefined" after undefined behaviour
    trace,       \* the accesses issued so far: <<[type, addr], ...>>
    history,     \* the AccessResult of each access
    log          \* log[i]: the calls and line installs of access i, in order

vars == <<cfg, memLatency, sets_, policy_, hits_, misses_, evictions_,
          status, trace, history, log>>

Depth == Len(cfg)

Addrs == 0 .. MaxAddr

\* ------------------------------------------------------------------ lines

\* struct Line { bool valid = false; bool dirty = false; uint64_t tag = 0; }
Line == [valid |-> FALSE, dirty |-> FALSE, tag |-> 0]

\* ------------------------------------------------- LRUPolicy (policies.hpp)

\* construct(sets, ways): a recency order of the ways of each set, least
\* recently used first.
PolicyInit(sets, ways) ==
    [s \in 0 .. sets - 1 |-> [i \in 1 .. ways |-> i - 1]]

MoveToBack(order, way) ==
    SelectSeq(order, LAMBDA w : w # way) \o <<way>>

\* OnHit(set, way): mark way most recently used.
OnHit(p, set, way) == [p EXCEPT ![set] = MoveToBack(@, way)]

\* OnFill(set, way): mark way most recently used.
OnFill(p, set, way) == [p EXCEPT ![set] = MoveToBack(@, way)]

\* GetVictim(set): the least recently used way.
GetVictim(p, set) == Head(p[set])

\* ------------------------------------------------------------- the machine

\* The state the nested calls of one access work on: every level's fields,
\* and ev, the record of what the access has done so far.
Machine ==
    [sets |-> sets_, policy |-> policy_, hits |-> hits_,
     misses |-> misses_, evictions |-> evictions_, ev |-> <<>>]

\* An entry of ev.  A call entry (op "Load" or "Store") is written when level
\* lvl (Depth + 1: MainMemory) receives the call, with the outcome of its tag
\* lookup; an "Install" entry when Fill overwrites a way, with the line it
\* replaces.
Event(lvl, op, addr, set, tag, way, hit, victim) ==
    [lvl |-> lvl, op |-> op, addr |-> addr, set |-> set, tag |-> tag,
     way |-> way, hit |-> hit, victim |-> victim]

Record(m, e) == [m EXCEPT !.ev = Append(@, e)]

\* ---------------------------------------------------------------- helpers

\* Unsigned arithmetic: a result is taken modulo 2^WordBits.
Word == 2 ^ WordBits

Wrap(x) == x % Word

\* uint64_t set_idx = (addr / BlockSize) % Sets;
SetIdx(c, addr) == (addr \div c.BlockSize) % c.Sets

\* Faulty variant of TagOf: the divisor is BlockSize alone.
TagOfNoSets(c, addr) == addr \div c.BlockSize

\* uint64_t tag = addr / (BlockSize * Sets);
TagOf(c, addr) == addr \div Wrap(c.BlockSize * c.Sets)

\* Faulty variant of Matches: the valid bit is not looked at.
MatchesTagOnly(line, tag) == line.tag = tag

\* sets_[set_idx][way_idx].valid && sets_[set_idx][way_idx].tag == tag
Matches(line, tag) == line.valid /\ line.tag = tag

\* Faulty variant of FindWay: the loop stops one way short (way_idx < Ways - 1).
FindWayShort(lines, tag, ways) ==
    LET m == {w \in 0 .. ways - 2 : Matches(lines[w], tag)}
    IN  IF m = {} THEN ways ELSE CHOOSE w \in m : \A v \in m : w <= v

\* The tag lookup loop: the first way that matches, or ways when none does.
FindWay(lines, tag, ways) ==
    LET m == {w \in 0 .. ways - 1 : Matches(lines[w], tag)}
    IN  IF m = {} THEN ways ELSE CHOOSE w \in m : \A v \in m : w <= v

\* Faulty variant of FirstInvalid: the loop keeps the last invalid way it
\* sees (no break).
FirstInvalidNoBreak(lines, ways) ==
    LET m == {w \in 0 .. ways - 1 : ~lines[w].valid}
    IN  IF m = {} THEN ways ELSE CHOOSE w \in m : \A v \in m : v <= w

\* Fill's first loop: the first invalid way, or ways when the set is full.
FirstInvalid(lines, ways) ==
    LET m == {w \in 0 .. ways - 1 : ~lines[w].valid}
    IN  IF m = {} THEN ways ELSE CHOOSE w \in m : \A v \in m : w <= v

\* Faulty variant of NeedsWriteBack: the test of the dirty bit is inverted.
NeedsWriteBackIfClean(victim) == victim.valid /\ ~victim.dirty

\* Faulty variant of NeedsWriteBack: the dirty bit is not looked at.
NeedsWriteBackIfValid(victim) == victim.valid

\* if (victim.valid && victim.dirty)
NeedsWriteBack(victim) == victim.valid /\ victim.dirty

\* Faulty variant of EvictAddr: the tag is not scaled by Sets.
EvictAddrNoSets(c, tag, set_idx) == (tag + set_idx) * c.BlockSize

\* uint64_t evict_addr = (victim.tag * Sets + set_idx) * BlockSize;
EvictAddr(c, tag, set_idx) ==
    Wrap(Wrap(Wrap(tag * c.Sets) + set_idx) * c.BlockSize)

\* Faulty variant of FilledLine: valid is left as it was in a fresh line.
FilledLineNotValid(tag) == [valid |-> FALSE, dirty |-> FALSE, tag |-> tag]

\* The three assignments that overwrite the chosen way.
FilledLine(tag) == [valid |-> TRUE, dirty |-> FALSE, tag |-> tag]

\* sets_[set_idx][way_idx].dirty = true;
MarkDirty(line) == [line EXCEPT !.dirty = TRUE]

\* Faulty variant of AddLatency: the level's latency is not added on a miss.
AddLatencyDropped(res, c) == res

\* res.total_cycles += HitLatency;
AddLatency(res, c) ==
    [res EXCEPT !.total_cycles = @ + c.HitLatency]

\* return {Name.value, HitLatency};
HitResult(c) == [hit_level |-> c.Name, total_cycles |-> c.HitLatency]

\* Faulty variant of MemResult: MainMemory answers with a name of its own making.
MemResultOtherName == [hit_level |-> "Memory", total_cycles |-> memLatency]

\* MainMemory: return {Name.value, latency_};
MemResult == [hit_level |-> MemName, total_cycles |-> memLatency]

StatsHit(m, l) == [m EXCEPT !.hits[l] = @ + 1]

StatsMiss(m, l) == [m EXCEPT !.misses[l] = @ + 1]

\* The policy calls of a hit and of a fill.
NotifyHit(m, l, set_idx, way) ==
    [m EXCEPT !.policy[l] = OnHit(@, set_idx, way)]

NotifyFill(m, l, set_idx, way) ==
    [m EXCEPT !.policy[l] = OnFill(@, set_idx, way)]

\* MainMemory::Load and MainMemory::Store: always hit, change nothing.
MemLoad(m, addr) ==
    [m   |-> Record(m, Event(Depth + 1, "Load", addr, 0, 0, 0, TRUE, Line)),
     res |-> MemResult]

MemStore(m, addr) ==
    [m   |-> Record(m, Event(Depth + 1, "Store", addr, 0, 0, 0, TRUE, Line)),
     res |-> MemResult]

\* ------------------------------------------------------- Cache's methods

RECURSIVE Load(_, _, _), Store(_, _, _), Fill(_, _, _, _)

\* next_->Load(addr) and next_->Store(addr) of level l.
NextLoad(l, m, addr) ==
    IF l = Depth THEN MemLoad(m, addr) ELSE Load(l + 1, m, addr)

NextStore(l, m, addr) ==
    IF l = Depth THEN MemStore(m, addr) ELSE Store(l + 1, m, addr)

\* The tail of Fill: overwrite the chosen way and tell the policy.
Install(l, m, set_idx, way, tag) ==
    LET old == m.sets[l][set_idx][way]
        m1  == [m EXCEPT !.sets[l][set_idx][way] = FilledLine(tag)]
        m2  == NotifyFill(m1, l, set_idx, way)
    IN  Record(m2, Event(l, "Install", EvictAddr(cfg[l], tag, set_idx),
                         set_idx, tag, way, FALSE, old))

\* Faulty variant of WriteBack: the eviction is not counted.
WriteBackUncounted(l, m, set_idx, victim) ==
    NextStore(l, m, EvictAddr(cfg[l], victim.tag, set_idx)).m

\* The write-back of Fill: Store the victim's block to the next level.
WriteBack(l, m, set_idx, victim) ==
    LET r == NextStore(l, m, EvictAddr(cfg[l], victim.tag, set_idx))
    IN  [r.m EXCEPT !.evictions[l] = @ + 1]

\* void Fill(size_t set_idx, uint64_t tag)
Fill(l, m, set_idx, tag) ==
    LET c     == cfg[l]
        lines == m.sets[l][set_idx]
        free  == FirstInvalid(lines, c.Ways)
    IN  IF free # c.Ways
        THEN Install(l, m, set_idx, free, tag)
        ELSE LET way    == GetVictim(m.policy[l], set_idx)
                 victim == lines[way]
                 m1     == IF NeedsWriteBack(victim)
                           THEN WriteBack(l, m, set_idx, victim)
                           ELSE m
             IN  Install(l, m1, set_idx, way, tag)

\* Faulty variant of LoadHit: the policy is not told of the hit.
LoadHitNoNotify(l, m, set_idx, way) ==
    [m   |-> StatsHit(m, l),
     res |-> HitResult(cfg[l])]

\* Faulty variant of LoadHit: the line is marked dirty as in Store.
LoadHitMarksDirty(l, m, set_idx, way) ==
    LET m1 == StatsHit(m, l)
        m2 == [m1 EXCEPT !.sets[l][set_idx][way] = MarkDirty(@)]
    IN  [m   |-> NotifyHit(m2, l, set_idx, way),
         res |-> HitResult(cfg[l])]

\* The hit branch of Load.
LoadHit(l, m, set_idx, way) ==
    [m   |-> NotifyHit(StatsHit(m, l), l, set_idx, way),
     res |-> HitResult(cfg[l])]

\* Faulty variant of LoadMiss: the line is filled before the block is
\* fetched.
LoadMissFillFirst(l, m, addr, set_idx, tag) ==
    LET m1 == Fill(l, StatsMiss(m, l), set_idx, tag)
        r  == NextLoad(l, m1, addr)
    IN  [m   |-> r.m,
         res |-> AddLatency(r.res, cfg[l])]

\* Faulty variant of LoadMiss: the result is returned under this level's name.
LoadMissRenamed(l, m, addr, set_idx, tag) ==
    LET r == NextLoad(l, StatsMiss(m, l), addr)
    IN  [m   |-> Fill(l, r.m, set_idx, tag),
         res |-> [hit_level    |-> cfg[l].Name,
                  total_cycles |-> r.res.total_cycles + cfg[l].HitLatency]]

\* The miss branch of Load.
LoadMiss(l, m, addr, set_idx, tag) ==
    LET r == NextLoad(l, StatsMiss(m, l), addr)
    IN  [m   |-> Fill(l, r.m, set_idx, tag),
         res |-> AddLatency(r.res, cfg[l])]

\* AccessResult Load(uint64_t addr)
Load(l, m, addr) ==
    LET c       == cfg[l]
        set_idx == SetIdx(c, addr)
        tag     == TagOf(c, addr)
        way     == FindWay(m.sets[l][set_idx], tag, c.Ways)
        m0      == Record(m, Event(l, "Load", addr, set_idx, tag, way,
                                   way # c.Ways, Line))
    IN  IF way # c.Ways
        THEN LoadHit(l, m0, set_idx, way)
        ELSE LoadMiss(l, m0, addr, set_idx, tag)

\* Faulty variant of StoreHit: the hit is not counted.
StoreHitUncounted(l, m, set_idx, way) ==
    LET m2 == [m EXCEPT !.sets[l][set_idx][way] = MarkDirty(@)]
    IN  [m   |-> NotifyHit(m2, l, set_idx, way),
         res |-> HitResult(cfg[l])]

\* The hit branch of Store.
StoreHit(l, m, set_idx, way) ==
    LET m1 == StatsHit(m, l)
        m2 == [m1 EXCEPT !.sets[l][set_idx][way] = MarkDirty(@)]
    IN  [m   |-> NotifyHit(m2, l, set_idx, way),
         res |-> HitResult(cfg[l])]

\* Faulty variant of MarkFilledDirty: the loop is missing.
MarkFilledDirtyDropped(l, m, set_idx, tag) == m

\* The loop that ends Store's miss branch: mark the first matching way dirty.
MarkFilledDirty(l, m, set_idx, tag) ==
    LET way == FindWay(m.sets[l][set_idx], tag, cfg[l].Ways)
    IN  IF way # cfg[l].Ways
        THEN [m EXCEPT !.sets[l][set_idx][way] = MarkDirty(@)]
        ELSE m

\* Faulty variant of StoreMiss: the miss is passed down as a Store.
StoreMissByStore(l, m, addr, set_idx, tag) ==
    LET r  == NextStore(l, StatsMiss(m, l), addr)
        m1 == Fill(l, r.m, set_idx, tag)
    IN  [m   |-> MarkFilledDirty(l, m1, set_idx, tag),
         res |-> AddLatency(r.res, cfg[l])]

\* The miss branch of Store (write-allocate).
StoreMiss(l, m, addr, set_idx, tag) ==
    LET r  == NextLoad(l, StatsMiss(m, l), addr)
        m1 == Fill(l, r.m, set_idx, tag)
    IN  [m   |-> MarkFilledDirty(l, m1, set_idx, tag),
         res |-> AddLatency(r.res, cfg[l])]

\* AccessResult Store(uint64_t addr)
Store(l, m, addr) ==
    LET c       == cfg[l]
        set_idx == SetIdx(c, addr)
        tag     == TagOf(c, addr)
        way     == FindWay(m.sets[l][set_idx], tag, c.Ways)
        m0      == Record(m, Event(l, "Store", addr, set_idx, tag, way,
                                   way # c.Ways, Line))
    IN  IF way # c.Ways
        THEN StoreHit(l, m0, set_idx, way)
        ELSE StoreMiss(l, m0, addr, set_idx, tag)

\* ------------------------------------------------------------ the system

\* Every template argument the address arithmetic and the way loops rely on
\* is positive, and so is the divisor BlockSize * Sets as the machine
\* computes it.
WellFormed(h) ==
    \A l \in 1 .. Len(h) :
        /\ h[l].Sets > 0 /\ h[l].Ways > 0 /\ h[l].BlockSize > 0
        /\ Wrap(h[l].BlockSize * h[l].Sets) > 0

\* The constructors: next_ built first, every line invalid and clean, the
\* policy constructed, the counters zero.
Constructed(h) ==
    /\ cfg = h
    /\ memLatency = DefaultMemLatency
    /\ sets_ = [l \in 1 .. Len(h) |->
                  [s \in 0 .. h[l].Sets - 1 |->
                     [w \in 0 .. h[l].Ways - 1 |-> Line]]]
    /\ policy_ = [l \in 1 .. Len(h) |-> PolicyInit(h[l].Sets, h[l].Ways)]
    /\ hits_ = [l \in 1 .. Len(h) |-> 0]
    /\ misses_ = [l \in 1 .. Len(h) |-> 0]
    /\ evictions_ = [l \in 1 .. Len(h) |-> 0]
    /\ status = "running"
    /\ trace = <<>>
    /\ history = <<>>
    /\ log = <<>>

Init == \E h \in Hierarchies : Constructed(h)

\* The driver takes the result r of an access and the machine it leaves.
Return(type, addr, r) ==
    /\ sets_' = r.m.sets
    /\ policy_' = r.m.policy
    /\ hits_' = r.m.hits
    /\ misses_' = r.m.misses
    /\ evictions_' = r.m.evictions
    /\ trace' = Append(trace, [type |-> type, addr |-> addr])
    /\ history' = Append(history, r.res)
    /\ log' = Append(log, r.m.ev)
    /\ UNCHANGED <<cfg, memLatency, status>>

CanIssue ==
    /\ status = "running"
    /\ Len(trace) < MaxAccesses

\* A Load on the top level.
IssueLoad ==
    /\ CanIssue
    /\ WellFormed(cfg)
    /\ \E addr \in Addrs : Return("Load", addr, Load(1, Machine, addr))

\* A Store on the top level.
IssueStore ==
    /\ CanIssue
    /\ WellFormed(cfg)
    /\ \E addr \in Addrs : Return("Store", addr, Store(1, Machine, addr))

Next == IssueLoad \/ IssueStore

Spec == Init /\ [][Next]_vars

\* ------------------------------------------- zero template arguments

InitAssembly ==
    \E h \in Hierarchies \cup DegenerateHierarchies : Constructed(h)

\* A Load or Store on a top level with Sets = 0 or BlockSize = 0, or whose
\* BlockSize * Sets wraps to 0, divides by zero in its first two statements;
\* with Ways = 0 it misses and Fill then indexes
\* sets_[set_idx][victim_way_idx] past the end of an empty vector.
\* Both are undefined behaviour: the process traps, or the call returns
\* some result and the program goes on in a state the sources say nothing
\* about (the model follows it no further).
UndefinedAccess ==
    /\ CanIssue
    /\ ~WellFormed(cfg)
    /\ \E type \in {"Load", "Store"}, addr \in Addrs :
          /\ trace' = Append(trace, [type |-> type, addr |-> addr])
          /\ \/ /\ status' = "aborted"
                /\ UNCHANGED history
             \/ /\ status' = "undefined"
                /\ \E r \in {HitResult(cfg[1]), AddLatency(MemResult, cfg[1])} :
                      history' = Append(history, r)
          /\ log' = Append(log, <<>>)
    /\ UNCHANGED <<cfg, memLatency, sets_, policy_, hits_, misses_, evictions_>>

NextAssembly == IssueLoad \/ IssueStore \/ UndefinedAccess

SpecAssembly == InitAssembly /\ [][NextAssembly]_vars

\* ------------------------------------- the address round trip of Fill

\* Direct-mapped single levels with a small Sets and any BlockSize.
InitRoundTrip ==
    \E sets \in 1 .. MaxSets, bs \in 1 .. Word - 1 :
        Constructed(<<Level("L1", sets, 1, bs, 1)>>)

\* What Load and Fill compute for a block: Load's set_idx and tag of addr,
\* and the evict_addr that Fill rebuilds from them when the block's line is
\* the victim.
Reconstruct ==
    /\ status = "running"
    /\ trace = <<>>
    /\ WellFormed(cfg)
    /\ \E addr \in 0 .. Word - 1 :
          LET c       == cfg[1]
              set_idx == SetIdx(c, addr)
              tag     == TagOf(c, addr)
          IN  /\ trace' = <<[type |-> "Reconstruct", addr |-> addr]>>
              /\ log' = << <<Event(1, "Reconstruct",
                                   EvictAddr(c, tag, set_idx),
                                   set_idx, tag, 0, FALSE, Line)>> >>
    /\ UNCHANGED <<cfg, memLatency, sets_, policy_, hits_, misses_,
                   evictions_, status, history>>

NextRoundTrip == Reconstruct \/ UndefinedAccess

SpecRoundTrip == InitRoundTrip /\ [][NextRoundTrip]_vars

\* ======================================================== properties

Levels == 1 .. Depth

SetsOf(l) == 0 .. cfg[l].Sets - 1

WaysOf(l) == 0 .. cfg[l].Ways - 1

\* The block of an address at a level, and the set and tag of a block.
BlockOf(l, addr) == addr \div cfg[l].BlockSize

BlockSet(l, b) == b % cfg[l].Sets

BlockTag(l, b) == b \div cfg[l].Sets

\* Level l holds the block of addr.
Resident(l, addr) ==
    \E w \in WaysOf(l) :
        LET ln == sets_[l][BlockSet(l, BlockOf(l, addr))][w]
        IN  ln.valid /\ ln.tag = BlockTag(l, BlockOf(l, addr))

RECURSIVE Flatten(_)
Flatten(ss) == IF ss = <<>> THEN <<>> ELSE Head(ss) \o Flatten(Tail(ss))

\* Everything the run has done, in order.
AllEvents == Flatten(log)

IsCall(e) == e.op \in {"Load", "Store"}

IsInstall(e) == e.op = "Install"

SetMax(S) == CHOOSE x \in S : \A y \in S : y <= x

SetMin(S) == CHOOSE x \in S : \A y \in S : x <= y

\* The call on level l that was running when event k happened.
PrevCall(E, k, l) ==
    SetMax({j \in 1 .. k - 1 : IsCall(E[j]) /\ E[j].lvl = l})

\* The events of the call at index c are those before the next call on the
\* same level: EndOfCall is the index after the last of them.
EndOfCall(E, c) ==
    LET S == {j \in c + 1 .. Len(E) : IsCall(E[j]) /\ E[j].lvl = E[c].lvl}
    IN  IF S = {} THEN Len(E) + 1 ELSE SetMin(S)

\* The calls of kind op that the call at index c made to the next level.
CallsBelow(E, c, op) ==
    {j \in c + 1 .. EndOfCall(E, c) - 1 :
        E[j].op = op /\ E[j].lvl = E[c].lvl + 1}

\* C1: in every reachable state, in every set of every cache level, no two
\* distinct ways hold valid lines with the same tag.
C1_TagUniqueness ==
    \A l \in Levels : \A s \in SetsOf(l) : \A w1, w2 \in WaysOf(l) :
        (w1 # w2 /\ sets_[l][s][w1].valid /\ sets_[l][s][w2].valid)
            => sets_[l][s][w1].tag # sets_[l][s][w2].tag

\* A two-way set of the second level is full, and that level has received a
\* write-back Store.
C1_Witness ==
    /\ Depth = 2
    /\ \E s \in SetsOf(2) : \A w \in WaysOf(2) : sets_[2][s][w].valid
    /\ cfg[2].Ways = 2
    /\ \E k \in DOMAIN AllEvents :
          AllEvents[k].lvl = 2 /\ AllEvents[k].op = "Store"

\* C2: in every reachable state, every dirty line of every cache level is
\* valid.
C2_DirtyImpliesValid ==
    \A l \in Levels : \A s \in SetsOf(l) : \A w \in WaysOf(l) :
        sets_[l][s][w].dirty => sets_[l][s][w].valid

\* Both levels hold a dirty line.
C2_Witness ==
    /\ Depth = 2
    /\ \A l \in Levels : \E s \in SetsOf(l) : \E w \in WaysOf(l) :
          sets_[l][s][w].dirty

\* The block-aligned address of the block of addr at level l.
BlockBase(l, addr) == BlockOf(l, addr) * cfg[l].BlockSize

\* The address of the latest Store that level l received before event k for
\* the block that has tag tag in set set: the Store that made this block's
\* line dirty.
StoresTo(E, k, l, set, tag) ==
    {j \in 1 .. k - 1 :
        /\ E[j].op = "Store" /\ E[j].lvl = l
        /\ BlockSet(l, BlockOf(l, E[j].addr)) = set
        /\ BlockTag(l, BlockOf(l, E[j].addr)) = tag}

\* The installs that replace a valid dirty line.
DirtyEvictions(E) ==
    {k \in DOMAIN E : IsInstall(E[k]) /\ E[k].victim.valid /\ E[k].victim.dirty}

\* C3 as stated: whenever a level replaces a dirty line, the call that does
\* so has made exactly one Store to the next level, before the line was
\* overwritten, and that Store's address is the address A of the Store that
\* dirtied the line.
C3_WriteBackToStoredAddress ==
    LET E == AllEvents
    IN  \A k \in DirtyEvictions(E) :
          LET l  == E[k].lvl
              c  == PrevCall(E, k, l)
              wb == CallsBelow(E, c, "Store")
              st == StoresTo(E, k, l, E[k].set, E[k].victim.tag)
          IN  /\ Cardinality(wb) = 1
              /\ st # {}
              /\ \A j \in wb : j < k /\ E[j].addr = E[SetMax(st)].addr

\* C3 (amended): whenever a level replaces a dirty line, the call that does
\* so has made exactly one Store to the next level, before the line was
\* overwritten, and that Store's address is the first address of the block of
\* A, the address of the Store that dirtied the line (A itself when A is
\* block-aligned).
C3_WriteBackToBlockBase ==
    LET E == AllEvents
    IN  \A k \in DirtyEvictions(E) :
          LET l  == E[k].lvl
              c  == PrevCall(E, k, l)
              wb == CallsBelow(E, c, "Store")
              st == StoresTo(E, k, l, E[k].set, E[k].victim.tag)
          IN  /\ Cardinality(wb) = 1
              /\ st # {}
              /\ \A j \in wb :
                    j < k /\ E[j].addr = BlockBase(l, E[SetMax(st)].addr)

\* A dirty line that a Store to an address inside its block made is replaced.
C3_Witness ==
    LET E == AllEvents
    IN  \E k \in DirtyEvictions(E) :
            LET st == StoresTo(E, k, E[k].lvl, E[k].set, E[k].victim.tag)
                wb == CallsBelow(E, PrevCall(E, k, E[k].lvl), "Store")
            IN  /\ E[SetMax(st)].addr # BlockBase(E[k].lvl, E[SetMax(st)].addr)
                /\ \E j \in wb : j < k

\* Every access so far is a Load of the same address.
OnlyLoadsOfOneAddress ==
    /\ trace # <<>>
    /\ \A i \in DOMAIN trace :
          trace[i].type = "Load" /\ trace[i].addr = trace[1].addr

\* C4: on a fresh hierarchy the first Load(A) misses at every cache level and
\* MainMemory services it; each Load(A) that follows at once hits at the top
\* level and returns that level's name.
C4_ColdMissThenHit ==
    OnlyLoadsOfOneAddress =>
        /\ history[1].hit_level = MemName
        /\ \A l \in Levels :
              \E k \in DOMAIN log[1] :
                  log[1][k].lvl = l /\ log[1][k].op = "Load" /\ ~log[1][k].hit
        /\ \E k \in DOMAIN log[1] :
              log[1][k].lvl = Depth + 1 /\ log[1][k].op = "Load"
        /\ \A i \in 2 .. Len(trace) :
              /\ history[i].hit_level = cfg[1].Name
              /\ Len(log[i]) = 1 /\ log[i][1].hit

\* Three Loads of one address on a two-level hierarchy.
C4_Witness ==
    OnlyLoadsOfOneAddress /\ Len(trace) >= 3 /\ Depth = 2

\* The level that serviced access i: the first level of the chain of calls
\* whose lookup hit (Depth + 1: MainMemory).
ServicedAt(i) ==
    SetMin({k \in DOMAIN log[i] : log[i][k].lvl = k /\ log[i][k].hit})

RECURSIVE SumHitLatency(_)
SumHitLatency(j) ==
    IF j = 0 THEN 0 ELSE cfg[j].HitLatency + SumHitLatency(j - 1)

\* C5: an access that misses at L1..Lk and that MainMemory services returns
\* the sum of the hit latencies of L1..Lk plus MainMemory's latency, whether
\* or not it made write-backs; an access that hits at Lj returns the sum of
\* the hit latencies of L1..Lj.
C5_LatencyAccumulation ==
    \A i \in DOMAIN history :
        LET j == ServicedAt(i)
        IN  /\ \A k \in 1 .. j - 1 : log[i][k].lvl = k /\ ~log[i][k].hit
            /\ history[i].total_cycles =
                  IF j = Depth + 1
                  THEN SumHitLatency(Depth) + memLatency
                  ELSE SumHitLatency(j)

\* One access that MainMemory serviced made two write-backs on its way, and
\* another hit at the second level.
C5_Witness ==
    /\ Depth = 2
    /\ \E i \in DOMAIN history :
          /\ ServicedAt(i) = 3
          /\ \E k \in DOMAIN log[i] : log[i][k].op = "Store" /\ log[i][k].lvl = 2
          /\ \E k \in DOMAIN log[i] : log[i][k].op = "Store" /\ log[i][k].lvl = 3
    /\ \E i \in DOMAIN history : ServicedAt(i) = 2

LevelNames == {cfg[l].Name : l \in Levels} \cup {MemName}

\* C6: the hit_level of every result is the name of a level of the chain:
\* of a cache level or of MainMemory.
C6_HitLevelNamesALevel ==
    \A i \in DOMAIN history : history[i].hit_level \in LevelNames

\* Results so far name every level of a two-level hierarchy.
C6_Witness ==
    /\ Depth = 2
    /\ {history[i].hit_level : i \in DOMAIN history} = LevelNames

\* The hits and installs that touched way w of set s of level l before event k.
Touches(E, k, l, s, w) ==
    {j \in 1 .. k - 1 :
        /\ E[j].lvl = l /\ E[j].set = s /\ E[j].way = w
        /\ (IsInstall(E[j]) \/ (IsCall(E[j]) /\ E[j].hit))}

\* The installs into a full set: the ones whose way the policy chose.
Replacements(E) == {k \in DOMAIN E : IsInstall(E[k]) /\ E[k].victim.valid}

\* C7: with LRU, the way a Fill into a full set replaces is the way whose
\* latest hit or fill is the oldest of the set; so after hits on ways
\* 0..Ways-1 in that order the next Fill replaces way 0.
C7_VictimIsLeastRecentlyUsed ==
    LET E == AllEvents
    IN  \A k \in Replacements(E) :
          LET l == E[k].lvl
              s == E[k].set
          IN  \A w \in WaysOf(l) :
                /\ Touches(E, k, l, s, w) # {}
                /\ w # E[k].way =>
                      SetMax(Touches(E, k, l, s, E[k].way))
                          < SetMax(Touches(E, k, l, s, w))

\* Both ways of a full set were hit, way 0 and then way 1, and the Fill that
\* follows replaces way 0.
C7_Witness ==
    LET E == AllEvents
    IN  \E k \in Replacements(E) :
          LET l  == E[k].lvl
              s  == E[k].set
              t0 == SetMax(Touches(E, k, l, s, 0))
              t1 == SetMax(Touches(E, k, l, s, 1))
          IN  /\ cfg[l].Ways = 2
              /\ IsCall(E[t0]) /\ IsCall(E[t1]) /\ t0 < t1
              /\ E[k].way = 0

\* The top level is direct-mapped and every access so far is a Load of a
\* block of its own, all of them of one set.
DistinctBlocksOfOneSet ==
    /\ cfg[1].Ways = 1
    /\ trace # <<>>
    /\ \A i \in DOMAIN trace :
          /\ trace[i].type = "Load"
          /\ BlockSet(1, BlockOf(1, trace[i].addr))
                = BlockSet(1, BlockOf(1, trace[1].addr))
    /\ \A i, j \in DOMAIN trace :
          i # j => BlockOf(1, trace[i].addr) # BlockOf(1, trace[j].addr)

\* Access i replaced the top level's line of the first address.
EvictsFirst(i) ==
    \E k \in DOMAIN log[i] :
        /\ IsInstall(log[i][k]) /\ log[i][k].lvl = 1
        /\ log[i][k].victim.valid
        /\ log[i][k].set = BlockSet(1, BlockOf(1, trace[1].addr))
        /\ log[i][k].victim.tag = BlockTag(1, BlockOf(1, trace[1].addr))

\* C8 as stated: with Ways = 1 and Sets = S, Loads of distinct blocks of one
\* set evict the first address's line on access S + 1 and on no other.
C8_EvictedOnAccessSetsPlusOne ==
    DistinctBlocksOfOneSet =>
        \A i \in DOMAIN trace : EvictsFirst(i) <=> i = cfg[1].Sets + 1

\* C8 (amended): with Ways = 1 and any Sets, Loads of distinct blocks of one
\* set evict the first address's line on the second access and on no other;
\* from then on the set holds the block loaded last, not the first.
C8_EvictedOnSecondAccess ==
    DistinctBlocksOfOneSet =>
        /\ \A i \in DOMAIN trace : EvictsFirst(i) <=> i = 2
        /\ Resident(1, trace[Len(trace)].addr)
        /\ Len(trace) >= 2 => ~Resident(1, trace[1].addr)

\* Two such Loads on a top level of two sets: the second evicts the first.
C8_Witness ==
    /\ DistinctBlocksOfOneSet
    /\ cfg[1].Sets = 2
    /\ Len(trace) = 2
    /\ EvictsFirst(2)

\* C9: no Load or Store is ever executed on a hierarchy that has a level with
\* Sets = 0, Ways = 0 or BlockSize = 0 (its construction is rejected).
C9_NoAccessWithZeroParameter ==
    trace # <<>> =>
        \A l \in Levels :
            cfg[l].Sets # 0 /\ cfg[l].Ways # 0 /\ cfg[l].BlockSize # 0

\* The Stores that missed at a cache level.
StoreMisses(E) ==
    {c \in DOMAIN E : E[c].op = "Store" /\ E[c].lvl <= Depth /\ ~E[c].hit}

\* The ways of level l that hold the block of addr.
WaysHolding(l, addr) ==
    {w \in WaysOf(l) :
        LET ln == sets_[l][BlockSet(l, BlockOf(l, addr))][w]
        IN  ln.valid /\ ln.tag = BlockTag(l, BlockOf(l, addr))}

\* C10: a Store(addr) that misses at a cache level makes exactly one
\* Load(addr) and no Store(addr) to the next level; when it has returned the
\* level holds exactly one valid line for addr's tag in addr's set, and the
\* line is dirty.
C10_WriteAllocate ==
    LET E == AllEvents
    IN  \A c \in StoreMisses(E) :
          LET l == E[c].lvl
          IN  /\ Cardinality(CallsBelow(E, c, "Load")) = 1
              /\ \A j \in CallsBelow(E, c, "Load") : E[j].addr = E[c].addr
              /\ \A j \in CallsBelow(E, c, "Store") : E[j].addr # E[c].addr
              /\ EndOfCall(E, c) = Len(E) + 1 =>
                    /\ Cardinality(WaysHolding(l, E[c].addr)) = 1
                    /\ \A w \in WaysHolding(l, E[c].addr) :
                          sets_[l][BlockSet(l, BlockOf(l, E[c].addr))][w].dirty

\* The latest call on the second level is a write-back Store that missed,
\* and the Store of the top level that caused it missed too.
C10_Witness ==
    LET E == AllEvents
    IN  \E c1, c2 \in StoreMisses(E) :
          /\ E[c1].lvl = 1 /\ E[c2].lvl = 2 /\ c1 < c2
          /\ EndOfCall(E, c1) = Len(E) + 1
          /\ EndOfCall(E, c2) = Len(E) + 1

\* C11: for every address and every configuration with Sets > 0 and
\* BlockSize > 0, the address (tag * Sets + set) * BlockSize rebuilt from an
\* address's set and tag decomposes to the same set and tag again, and lies
\* in the same block: a write-back targets the block that was cached.
C11_RoundTrip ==
    (trace # <<>> /\ cfg[1].Sets > 0 /\ cfg[1].BlockSize > 0) =>
        /\ status = "running"
        /\ trace[1].type = "Reconstruct" =>
              LET c == cfg[1]
                  e == log[1][1]
              IN  /\ SetIdx(c, e.addr) = e.set
                  /\ TagOf(c, e.addr) = e.tag
                  /\ e.addr \div c.BlockSize = trace[1].addr \div c.BlockSize

\* The same, for the configurations whose BlockSize * Sets fits a word.
C11_RoundTripWithoutWrap ==
    (trace # <<>> /\ cfg[1].BlockSize * cfg[1].Sets < Word) =>
        /\ status = "running"
        /\ trace[1].type = "Reconstruct" =>
              LET c == cfg[1]
                  e == log[1][1]
              IN  /\ SetIdx(c, e.addr) = e.set
                  /\ TagOf(c, e.addr) = e.tag
                  /\ e.addr \div c.BlockSize = trace[1].addr \div c.BlockSize

\* The installs that replace a valid line that is not dirty.
CleanEvictions(E) ==
    {k \in DOMAIN E : IsInstall(E[k]) /\ E[k].victim.valid /\ ~E[k].victim.dirty}

\* C12: a miss that replaces a valid line that is not dirty makes no Store to
\* the next level: the next level receives the Load of the missing address
\* and nothing else.
C12_CleanEvictionIsSilent ==
    LET E == AllEvents
    IN  \A k \in CleanEvictions(E) :
          LET c == PrevCall(E, k, E[k].lvl)
          IN  /\ CallsBelow(E, c, "Store") = {}
              /\ Cardinality(CallsBelow(E, c, "Load")) = 1
              /\ \A j \in CallsBelow(E, c, "Load") : E[j].addr = E[c].addr

\* Both levels of a hierarchy have replaced a clean line.
C12_Witness ==
    /\ Depth = 2
    /\ \A l \in Levels : \E k \in CleanEvictions(AllEvents) : AllEvents[k].lvl = l

\* The Stores that level l has made to the next level.
StoresBelow(E, l) == {j \in DOMAIN E : E[j].op = "Store" /\ E[j].lvl = l + 1}

\* C14: a level's evictions counter is the number of write-back Stores the
\* level has made to its next level, which is the number of valid dirty
\* lines it has replaced: hits, fills of invalid ways and replacements of
\* clean lines leave it alone.
C14_EvictionsCountWriteBacks ==
    LET E == AllEvents
    IN  \A l \in Levels :
          /\ evictions_[l] = Cardinality(StoresBelow(E, l))
          /\ evictions_[l] =
                Cardinality({k \in DirtyEvictions(E) : E[k].lvl = l})

\* Both levels have written back, and the top level has also hit, filled an
\* invalid way and replaced a clean line.
C14_Witness ==
    LET E == AllEvents
    IN  /\ Depth = 2
        /\ \A l \in Levels : evictions_[l] > 0
        /\ hits_[1] > 0
        /\ \E k \in CleanEvictions(E) : E[k].lvl = 1
        /\ \E k \in DOMAIN E :
              IsInstall(E[k]) /\ E[k].lvl = 1 /\ ~E[k].victim.valid

\* The ways of set s of level l that were installed before event k.
InstalledWays(E, k, l, s) ==
    {E[j].way : j \in {i \in 1 .. k - 1 :
                          IsInstall(E[i]) /\ E[i].lvl = l /\ E[i].set = s}}

\* C16: Fill installs into the lowest invalid way while the set has one, and
\* takes a way from the policy only when every way of the set is valid, so
\* the way taken is one of 0..Ways-1 and holds a valid line.  (The valid ways
\* of a set are those installed so far.)
C16_FillPrefersInvalidWays ==
    LET E == AllEvents
    IN  /\ \A k \in DOMAIN E :
              IsInstall(E[k]) =>
                  LET l    == E[k].lvl
                      full == InstalledWays(E, k, l, E[k].set)
                      free == WaysOf(l) \ full
                  IN  /\ E[k].way \in WaysOf(l)
                      /\ free # {} => E[k].way = SetMin(free) /\ ~E[k].victim.valid
                      /\ free = {} => E[k].victim.valid
        /\ \A l \in Levels : \A s \in SetsOf(l) : \A w \in WaysOf(l) :
              sets_[l][s][w].valid <=> w \in InstalledWays(E, Len(E) + 1, l, s)

\* A two-way set was filled way 0 first, then way 1, and then a way of it
\* was replaced.
C16_Witness ==
    LET E == AllEvents
    IN  \E k \in Replacements(E) :
          /\ cfg[E[k].lvl].Ways = 2
          /\ \E i, j \in 1 .. k - 1 :
                /\ i < j
                /\ IsInstall(E[i]) /\ E[i].lvl = E[k].lvl /\ E[i].way = 0
                /\ IsInstall(E[j]) /\ E[j].lvl = E[k].lvl /\ E[j].way = 1
                /\ ~E[i].victim.valid /\ ~E[j].victim.valid

\* The calls that missed at a cache level.
Misses(E) == {c \in DOMAIN E : IsCall(E[c]) /\ E[c].lvl <= Depth /\ ~E[c].hit}

\* The install that ends the miss at index c.
InstallOf(E, c) ==
    SetMin({k \in c + 1 .. Len(E) : IsInstall(E[k]) /\ E[k].lvl = E[c].lvl})

\* C17: a call to a cache level makes at most one Load and at most one Store
\* to the next level; a miss that replaces a dirty line makes the Load of
\* the missing address first and the write-back Store of the victim's block
\* second, and both are over before the line is overwritten and the call
\* returns.
C17_LoadThenWriteBack ==
    LET E == AllEvents
    IN  /\ \A c \in {i \in DOMAIN E : IsCall(E[i]) /\ E[i].lvl <= Depth} :
              /\ Cardinality(CallsBelow(E, c, "Load")) <= 1
              /\ Cardinality(CallsBelow(E, c, "Store")) <= 1
        /\ \A c \in Misses(E) :
              LET k == InstallOf(E, c)
                  l == E[c].lvl
              IN  /\ k < EndOfCall(E, c)
                  /\ (E[k].victim.valid /\ E[k].victim.dirty) =>
                        \E i \in CallsBelow(E, c, "Load") :
                        \E j \in CallsBelow(E, c, "Store") :
                            /\ i < j /\ j < k
                            /\ E[i].addr = E[c].addr
                            /\ BlockOf(l, E[j].addr)
                                  = E[k].victim.tag * cfg[l].Sets + E[k].set
                            /\ \A n \in j + 1 .. k - 1 : E[n].lvl > l

\* A Store that missed at the top of a two-level hierarchy replaced a dirty
\* line, and the write-back it made missed at the second level.
C17_Witness ==
    LET E == AllEvents
    IN  \E c \in Misses(E) :
          /\ Depth = 2 /\ E[c].lvl = 1 /\ E[c].op = "Store"
          /\ E[InstallOf(E, c)].victim.dirty
          /\ \E j \in CallsBelow(E, c, "Store") : ~E[j].hit

\* C18: between accesses, the top level's hits + misses is the number of
\* Loads and Stores issued to the hierarchy, and for adjacent cache levels i
\* and i+1, hits(i+1) + misses(i+1) = misses(i) + evictions(i).
C18_CounterConservation ==
    /\ hits_[1] + misses_[1] = Len(trace)
    /\ \A l \in Levels :
          l + 1 \in Levels =>
              hits_[l + 1] + misses_[l + 1] = misses_[l] + evictions_[l]

\* Every counter of a two-level hierarchy has moved.
C18_Witness ==
    /\ Depth = 2
    /\ \A l \in Levels : hits_[l] > 0 /\ misses_[l] > 0 /\ evictions_[l] > 0

\* The cache levels that hold the block of addr.
Holders(addr) == {l \in Levels : Resident(l, addr)}

\* The step is an access that returned.
Accessed == trace' # trace /\ status' = "running"

\* C13: the hit_level of an access is the name of the topmost level that
\* held the address's block when the access began, or MainMemory's name when
\* no cache level held it.
C13_HitLevelIsTopmostHolder ==
    [][Accessed =>
          LET addr == trace'[Len(trace')].addr
              res  == history'[Len(history')]
          IN  res.hit_level =
                IF Holders(addr) = {} THEN MemName
                ELSE cfg[SetMin(Holders(addr))].Name]_vars

\* A Store that missed at the top level returned the second level's name,
\* and a later access of the same block returned the top level's.
C13_Witness ==
    /\ Depth = 2
    /\ \E i, j \in DOMAIN history :
          /\ i < j
          /\ trace[i].type = "Store"
          /\ history[i].hit_level = cfg[2].Name
          /\ BlockOf(1, trace[j].addr) = BlockOf(1, trace[i].addr)
          /\ history[j].hit_level = cfg[1].Name

\* The calls that level l received in the list ev of one access.
CallsAt(ev, l) == {k \in DOMAIN ev : IsCall(ev[k]) /\ ev[k].lvl = l}

\* Level l held the block of every call that ev made to it.
OnlyHitsAt(ev, l) ==
    /\ CallsAt(ev, l) # {}
    /\ \A k \in CallsAt(ev, l) : Resident(l, ev[k].addr)

\* Way w of set s of level l holds the block of a Store of ev to level l.
StoredTo(ev, l, s, w) ==
    \E k \in CallsAt(ev, l) :
        /\ ev[k].op = "Store"
        /\ BlockSet(l, BlockOf(l, ev[k].addr)) = s
        /\ sets_[l][s][w].valid
        /\ sets_[l][s][w].tag = BlockTag(l, BlockOf(l, ev[k].addr))

\* C15: calls that hit at a cache level make no call to the next level and
\* leave alone the valid flag and tag of every line, the miss and eviction
\* counters and all state of the lower levels; a Load hit leaves every dirty
\* flag as it was and a Store hit sets the dirty flag of the line it matched
\* and no other.
C15_HitFrame ==
    [][Accessed =>
          LET ev == log'[Len(log')]
          IN  \A l \in Levels :
                OnlyHitsAt(ev, l) =>
                    /\ \A k \in DOMAIN ev :
                          ev[k].lvl < l \/ (ev[k].lvl = l /\ IsCall(ev[k]))
                    /\ \A s \in SetsOf(l) : \A w \in WaysOf(l) :
                          /\ sets_'[l][s][w].valid = sets_[l][s][w].valid
                          /\ sets_'[l][s][w].tag = sets_[l][s][w].tag
                          /\ sets_'[l][s][w].dirty =
                                (sets_[l][s][w].dirty \/ StoredTo(ev, l, s, w))
                    /\ misses_'[l] = misses_[l]
                    /\ evictions_'[l] = evictions_[l]
                    /\ hits_'[l] = hits_[l] + Cardinality(CallsAt(ev, l))
                    /\ \A d \in Levels :
                          d > l =>
                              /\ sets_'[d] = sets_[d]
                              /\ policy_'[d] = policy_[d]
                              /\ hits_'[d] = hits_[d]
                              /\ misses_'[d] = misses_[d]
                              /\ evictions_'[d] = evictions_[d]]_vars

\* A Store hit at the top level on a clean line, and in another access the
\* second level was hit twice, by the Load of a miss and by its write-back.
C15_Witness ==
    /\ Depth = 2
    /\ \E i \in DOMAIN log :
          /\ Len(log[i]) = 1 /\ log[i][1].op = "Store" /\ log[i][1].hit
    /\ \E i \in DOMAIN log :
          /\ Cardinality(CallsAt(log[i], 2)) = 2
          /\ \A k \in CallsAt(log[i], 2) : log[i][k].hit

\* The calls that cache levels received.
CacheCalls(E) == {c \in DOMAIN E : IsCall(E[c]) /\ E[c].lvl <= Depth}

\* The line of level l that holds the block of addr is dirty.
ResidentDirty(l, addr) ==
    \E w \in WaysHolding(l, addr) :
        sets_[l][BlockSet(l, BlockOf(l, addr))][w].dirty

\* What C19 says of a state: a call that missed installed its block before
\* it returned; the level holds the block of the latest call it received,
\* dirty after a Store and clean after a Load that missed; and every way
\* that was ever installed is valid.
ResidentAfterAccess ==
    LET E == AllEvents
    IN  /\ \A c \in CacheCalls(E) :
              LET l == E[c].lvl
                  b == BlockOf(l, E[c].addr)
              IN  /\ ~E[c].hit =>
                        \E k \in c + 1 .. EndOfCall(E, c) - 1 :
                            /\ IsInstall(E[k]) /\ E[k].lvl = l
                            /\ E[k].set = BlockSet(l, b)
                            /\ E[k].tag = BlockTag(l, b)
                  /\ EndOfCall(E, c) = Len(E) + 1 =>
                        /\ Resident(l, E[c].addr)
                        /\ E[c].op = "Store" => ResidentDirty(l, E[c].addr)
                        /\ (E[c].op = "Load" /\ ~E[c].hit) =>
                              ~ResidentDirty(l, E[c].addr)
        /\ \A k \in DOMAIN E :
              IsInstall(E[k]) => sets_[E[k].lvl][E[k].set][E[k].way].valid

\* A valid line stays valid.
ValidStaysValid ==
    \A l \in Levels : \A s \in SetsOf(l) : \A w \in WaysOf(l) :
        sets_[l][s][w].valid => sets_'[l][s][w].valid

\* C19: when a Load or Store has returned from a cache level, the level's
\* set for the address holds a valid line with the address's tag, dirty
\* after a Store and clean after a Load that missed; and no valid line ever
\* becomes invalid.
C19_ResidencyAfterAccess ==
    []ResidentAfterAccess /\ [][ValidStaysValid]_vars

\* The latest call of the second level is a write-back Store that missed and
\* replaced a line, and the latest call of the top level is a Load that
\* missed and replaced a dirty line.
C19_Witness ==
    LET E == AllEvents
    IN  /\ Depth = 2
        /\ \E c \in Misses(E) :
              /\ E[c].lvl = 2 /\ E[c].op = "Store"
              /\ EndOfCall(E, c) = Len(E) + 1
              /\ E[InstallOf(E, c)].victim.valid
        /\ \E c \in Misses(E) :
              /\ E[c].lvl = 1 /\ E[c].op = "Load"
              /\ EndOfCall(E, c) = Len(E) + 1
              /\ E[InstallOf(E, c)].victim.dirty

\* The top-level Stores: the Stores the top level received.
TopStores(E) == {c \in DOMAIN E : E[c].op = "Store" /\ E[c].lvl = 1}

\* The block of the top level that addr belongs to, named by its address.
TopBlock(addr) == BlockBase(1, addr)

\* The latest top-level Store to the block b.
LatestStoreTo(E, b) == SetMax({c \in TopStores(E) : TopBlock(E[c].addr) = b})

\* MainMemory has received, after event c, a Store to the address of a block
\* of some level that holds the address b.
WrittenToMemoryAfter(E, c, b) ==
    \E j \in c + 1 .. Len(E) :
        /\ E[j].op = "Store" /\ E[j].lvl = Depth + 1
        /\ \E l \in Levels : BlockOf(l, E[j].addr) = BlockOf(l, b)

\* C20: between accesses, for every block that has received a top-level
\* Store, some cache level holds a valid dirty line for the block, or
\* MainMemory has received a Store for the block's address after the latest
\* top-level Store to it.
C20_NoWriteIsLost ==
    LET E == AllEvents
    IN  \A c \in TopStores(E) :
          LET b == TopBlock(E[c].addr)
          IN  \/ \E l \in Levels : ResidentDirty(l, b)
              \/ WrittenToMemoryAfter(E, LatestStoreTo(E, b), b)

\* On a two-level hierarchy a stored block is dirty in no cache any more and
\* has gone to MainMemory, and another is dirty in the second level only.
C20_Witness ==
    LET E == AllEvents
    IN  /\ Depth = 2
        /\ \E c \in TopStores(E) :
              LET b == TopBlock(E[c].addr)
              IN  /\ \A l \in Levels : ~ResidentDirty(l, b)
                  /\ WrittenToMemoryAfter(E, LatestStoreTo(E, b), b)
        /\ \E c \in TopStores(E) :
              LET b == TopBlock(E[c].addr)
              IN  ~ResidentDirty(1, b) /\ ResidentDirty(2, b)

====
